---- MODULE Spec2Model ----
(***************************************************************************)
(* HR Simple MCP (simple_hr_mcp.py): the access-control helper has_access  *)
(* over the tables employees / teams / access_rules, and the statement     *)
(* tools statement_create / statement_list / statement_active /            *)
(* statement_cancel over the table employee_statements.                    *)
(* Further: the leave balance (compute_accrued_leave_days and its as_of     *)
(* variant, leave_balance_forecast), next_birthday, and the intent log     *)
(* (session_log_intent, session_intent_history).                           *)
(*                                                                         *)
(* Specifications:                                                         *)
(*   SpecAcl     has_access called on arbitrary tables                     *)
(*   Spec        the statement tools called one after another              *)
(*   SpecPerm    cancel and listings on arbitrary organisations and rules  *)
(*   SpecConc    statement_cancel calls that interleave                    *)
(*   SpecCreate  one statement_create call with any arguments              *)
(*   SpecTools   every operation that may touch the statements             *)
(*   SpecAccrual the leave balance computed once, on any day             *)
(*   SpecForecast one leave_balance_forecast call on any leaves table      *)
(*   SpecBirthday next_birthday, one loop pass at a time; SpecBirthdayFair *)
(*               with the loop kept running                                *)
(*   SpecIntent  the intent log written and read                           *)
(*                                                                         *)
(* Cyrillic string literals of the source are transliterated:              *)
(*   "otpusk" = отпуск, "uvolnenie" = увольнение, "drugoe" = другое,       *)
(*   "novaya" = новая, "otmenena" = отменена, "ocherednoy" = очередной,    *)
(*   "za svoy schyot" = за свой счёт, "za svoy schet" = за свой счет;      *)
(*   "premiya" and "uchebnyy" stand for a category and a vacation kind     *)
(*   that the program does not know, "proshu" for the text of a statement. *)
(***************************************************************************)
EXTENDS Integers, Sequences, FiniteSets, TLC

VARIABLES
    employees,            \* table employees: id -> [manager_id, team_id]
    teams,                \* table teams: id -> [lead_user_id]
    access_rules,         \* table access_rules: a set of rows
    employee_statements,  \* table employee_statements: rows in id order
    now,                  \* the clock read by dt.datetime.utcnow() / NOW()
    resp,                 \* the last call and what it returned
    pc,                   \* interleaved statement_cancel: position of each caller
    frame,                \* interleaved statement_cancel: locals of each caller
    leaves,               \* table leaves: a set of rows
    today,                \* the date dt.date.today() returns
    intent_log            \* the deque _INTENT_LOG, oldest entry first

vars == <<employees, teams, access_rules, employee_statements, now, resp, pc, frame,
          leaves, today, intent_log>>

-----------------------------------------------------------------------------
(* Bounds of the model *)

MaxRules == 1        \* rows in access_rules
MaxStatements == 2   \* rows in employee_statements
MaxTime == 2         \* the clock runs over 1..MaxTime
NumCallers == 2      \* concurrent callers of statement_cancel

(* Python None and SQL NULL of an integer or timestamp column. Ids come from
   BIGSERIAL and timestamps from the clock, so both are >= 1. *)
NULL == 0

\* No row: what DB.one returns as None.
NoRow == [id |-> NULL]

\* The organisation of the model: the ids in employees and in teams.
Users == {1, 2}
Teams == {1, 2}
Callers == 1..NumCallers

\* The requesters of the tools: the employees and one id that employees lacks.
Requesters == Users \cup {3}

Actions == {"READ_SELF", "READ_TEAM", "VIEW_SALARY_SUBORDINATES", "READ_COLLEAGUE"}
ShortcutActions == {"READ_TEAM", "VIEW_SALARY_SUBORDINATES"}
Scopes == {"SELF", "USER", "TEAM", "TEAM_ONLY", "SUBORDINATES", "ALL"}

-----------------------------------------------------------------------------
(* SQL and Python value semantics *)

\* SQL "a = b": never true when either side is NULL.
SqlEq(a, b) == a # NULL /\ b # NULL /\ a = b

\* Python truthiness of an Optional[int] / Optional[datetime].
Truthy(v) == v # NULL

\* A calendar date, as dt.date holds it.
Date(y, m, d) == [year |-> y, month |-> m, day |-> d]

\* The leaves table, the calendar and the intent log where the statement tools
\* and has_access run: none of them reads or writes these.
NoLeaveState ==
    /\ leaves = {}
    /\ today = Date(2025, 6, 1)
    /\ intent_log = <<>>

-----------------------------------------------------------------------------
(* Access control *)

user_team_id_first_team(user_id) ==
    IF user_id \in DOMAIN employees /\ employees[user_id].team_id # NULL
    THEN employees[user_id].team_id ELSE 1

\* SELECT team_id FROM employees WHERE id = user_id; None without a row
user_team_id(user_id) ==
    IF user_id \in DOMAIN employees THEN employees[user_id].team_id ELSE NULL

is_manager_of_swapped(manager_id, employee_id) ==
    /\ manager_id \in DOMAIN employees
    /\ SqlEq(employees[manager_id].manager_id, employee_id)

is_manager_of(manager_id, employee_id) ==
    /\ employee_id \in DOMAIN employees
    /\ SqlEq(employees[employee_id].manager_id, manager_id)

\* SELECT 1 FROM teams WHERE id = team_id AND lead_user_id = user_id
is_team_lead(team_id, user_id) ==
    /\ team_id \in DOMAIN teams
    /\ SqlEq(teams[team_id].lead_user_id, user_id)

RuleMatches_nulleq(r, user_id, action, target_user_id, team_id) ==
    /\ SqlEq(r.user_id, user_id)
    /\ r.action = action
    /\ r.allow = TRUE
    /\ \/ r.scope = "ALL"
       \/ r.scope = "SELF" /\ SqlEq(r.user_id, user_id)
       \/ r.scope = "USER" /\ r.target_user_id = target_user_id
       \/ r.scope \in {"TEAM", "TEAM_ONLY"} /\ r.team_id = team_id
       \/ r.scope = "SUBORDINATES"

\* The WHERE clause of the access_rules query, with the parameters
\* (user_id, action, user_id, target_user_id, team_id).
RuleMatches(r, user_id, action, target_user_id, team_id) ==
    /\ SqlEq(r.user_id, user_id)
    /\ r.action = action
    /\ r.allow = TRUE
    /\ \/ r.scope = "ALL"
       \/ r.scope = "SELF" /\ SqlEq(r.user_id, user_id)
       \/ r.scope = "USER" /\ SqlEq(r.target_user_id, target_user_id)
       \/ r.scope \in {"TEAM", "TEAM_ONLY"} /\ SqlEq(r.team_id, team_id)
       \/ r.scope = "SUBORDINATES"

has_access_no_fallback(user_id, action, target_user_id, team_id) ==
    IF action = "READ_SELF" /\ target_user_id = user_id THEN TRUE
    ELSE IF /\ action \in ShortcutActions
            /\ Truthy(target_user_id)
            /\ is_manager_of(user_id, target_user_id) THEN TRUE
    ELSE IF /\ action \in ShortcutActions
            /\ Truthy(team_id)
            /\ is_team_lead(team_id, user_id) THEN TRUE
    ELSE IF \E r \in access_rules :
                RuleMatches(r, user_id, action, target_user_id, team_id) THEN TRUE
    ELSE FALSE

has_access_no_self(user_id, action, target_user_id, team_id) ==
    IF /\ action \in ShortcutActions
       /\ Truthy(target_user_id)
       /\ is_manager_of(user_id, target_user_id) THEN TRUE
    ELSE IF /\ action \in ShortcutActions
            /\ Truthy(team_id)
            /\ is_team_lead(team_id, user_id) THEN TRUE
    ELSE IF \E r \in access_rules :
                RuleMatches(r, user_id, action, target_user_id, team_id) THEN TRUE
    ELSE action = "READ_COLLEAGUE"

has_access(user_id, action, target_user_id, team_id) ==
    IF action = "READ_SELF" /\ target_user_id = user_id THEN TRUE
    ELSE IF /\ action \in ShortcutActions
            /\ Truthy(target_user_id)
            /\ is_manager_of(user_id, target_user_id) THEN TRUE
    ELSE IF /\ action \in ShortcutActions
            /\ Truthy(team_id)
            /\ is_team_lead(team_id, user_id) THEN TRUE
    ELSE IF \E r \in access_rules :
                RuleMatches(r, user_id, action, target_user_id, team_id) THEN TRUE
    ELSE action = "READ_COLLEAGUE"

-----------------------------------------------------------------------------
(* The tables the program finds in the datastore *)

EmployeeRows == [manager_id : Users \cup {NULL}, team_id : Teams \cup {NULL}]
TeamRows == [lead_user_id : Users \cup {NULL}]

\* The employees tables in which a manager has a smaller id than the employee
\* managed (the manager relation is a forest).
Hierarchies(rows) ==
    {e \in [Users -> rows] :
        \A u \in Users : e[u].manager_id = NULL \/ e[u].manager_id < u}

\* Rows of access_rules: target_user_id is filled for scope USER and team_id for
\* the scopes TEAM and TEAM_ONLY, and either may be left NULL.
RuleRowsFor(users, actions, scopes) ==
    {r \in [user_id : users, action : actions, scope : scopes,
            target_user_id : Users \cup {NULL}, team_id : Teams \cup {NULL},
            allow : BOOLEAN] :
        /\ (r.scope # "USER" => r.target_user_id = NULL)
        /\ (r.scope \notin {"TEAM", "TEAM_ONLY"} => r.team_id = NULL)}

\* The sets of at most n elements of S.
RECURSIVE SubsetsUpTo(_, _)
SubsetsUpTo(S, n) ==
    IF n = 0 THEN {{}}
    ELSE LET smaller == SubsetsUpTo(S, n - 1)
         IN  smaller \cup {T \cup {x} : T \in smaller, x \in S}

NoCall == [op |-> "none"]
Idle == [c \in Callers |-> "idle"]
NoFrame == [c \in Callers |-> [statement_id |-> NULL, user_id |-> NULL,
                               row |-> NoRow, result |-> "none", cancelled_at |-> NULL]]

-----------------------------------------------------------------------------
(* Specification SpecAcl: has_access called on arbitrary tables *)

\* has_access reads manager_id of employees, teams and access_rules. The rules
\* belong to employee 1, so that a call of employee 2 meets only rules of
\* another actor.
AclRuleRows == RuleRowsFor({1}, {"READ_SELF", "READ_TEAM", "READ_COLLEAGUE"}, Scopes)

InitAcl ==
    /\ employees \in Hierarchies([manager_id : Users \cup {NULL}, team_id : {NULL}])
    /\ teams \in [Teams -> TeamRows]
    /\ access_rules \in SubsetsUpTo(AclRuleRows, MaxRules)
    /\ employee_statements = <<>>
    /\ now = 1
    /\ resp = NoCall
    /\ pc = Idle
    /\ frame = NoFrame
    /\ NoLeaveState

\* One call per behaviour: has_access writes nothing, so a later call would
\* start from the same tables.
HasAccessCall(user_id, action, target_user_id, team_id) ==
    /\ resp = NoCall
    /\ resp' = [op |-> "has_access", user_id |-> user_id, action |-> action,
                target_user_id |-> target_user_id, team_id |-> team_id,
                result |-> has_access(user_id, action, target_user_id, team_id)]
    /\ UNCHANGED <<leaves, today, intent_log, employees, teams, access_rules, employee_statements, now, pc, frame>>

NextAcl ==
    \E user_id \in Users, action \in Actions,
       target_user_id \in Users \cup {NULL}, team_id \in Teams \cup {NULL} :
        HasAccessCall(user_id, action, target_user_id, team_id)

SpecAcl == InitAcl /\ [][NextAcl]_vars

-----------------------------------------------------------------------------
(* Strings and dates of the statement tools *)

\* Python None of an Optional[str] argument, and SQL NULL of a text column.
NONE == "None"

\* Python truthiness of an Optional[str].
StrTruthy(s) == s \notin {NONE, ""}

\* str.lower() on the strings the model passes.
Lower(s) ==
    CASE s = "Otpusk" -> "otpusk"
      [] s = "DRUGOE" -> "drugoe"
      [] s = "Ocherednoy" -> "ocherednoy"
      [] s = "Za svoy schet" -> "za svoy schet"
      [] OTHER -> s

\* str.strip() on the strings the model passes.
Strip(s) ==
    CASE s = "  " -> ""
      [] s = " proshu " -> "proshu"
      [] OTHER -> s

\* The ISO dates the model passes, as day numbers.
IsoDates == {"2025-06-01", "2025-06-14"}

\* dt.date.fromisoformat on a string of IsoDates.
fromisoformat(s) ==
    CASE s = "2025-06-01" -> 1
      [] s = "2025-06-14" -> 14

\* "счет" in s, for a lower-cased s: the spelling with "ё" does not contain it.
ContainsSchet(s) == s = "za svoy schet"

allowed == {"otpusk", "uvolnenie", "drugoe"}
valid_kinds == {"ocherednoy", "za svoy schyot", "za svoy schet"}

-----------------------------------------------------------------------------
(* Statement tools *)

\* A row as INSERT INTO employee_statements creates it: id from the BIGSERIAL
\* sequence, status by DEFAULT 'новая', deleted_at NULL, created_at by NOW().
StatementRow_status_null(id, user_id, category, body, ds, de, vacation_kind, created_at) ==
    [id |-> id,
     employee_id |-> user_id,
     category |-> category,
     body |-> body,
     desired_start |-> ds,
     desired_end |-> de,
     status |-> NONE,
     vacation_kind |-> vacation_kind,
     deleted_at |-> NULL,
     created_at |-> created_at]

StatementRow(id, user_id, category, body, ds, de, vacation_kind, created_at) ==
    [id |-> id,
     employee_id |-> user_id,
     category |-> category,
     body |-> body,
     desired_start |-> ds,
     desired_end |-> de,
     status |-> "novaya",
     vacation_kind |-> vacation_kind,
     deleted_at |-> NULL,
     created_at |-> created_at]

NewStatement(user_id, category, body, ds, de, vacation_kind) ==
    StatementRow(Len(employee_statements) + 1, user_id, category, body, ds, de,
                 vacation_kind, now)

Unchanged == UNCHANGED <<leaves, today, intent_log, employees, teams, access_rules, employee_statements, now, pc, frame>>

\* if category.lower() not in allowed
category_error(category) == Lower(category) \notin allowed

text_error_no_strip(text) == text = ""

\* if not text.strip()
text_error(text) == Strip(text) = ""

\* dt.date.fromisoformat(s) raises ValueError
parse_error(s) == StrTruthy(s) /\ s \notin IsoDates

date_order_error_swapped(ds, de) == ds # NULL /\ de # NULL /\ de > ds

\* if ds and de and ds > de
date_order_error(ds, de) == ds # NULL /\ de # NULL /\ ds > de

statement_create(category, text, desired_start, desired_end, vacation_kind, requester_user_id) ==
    LET user_id == requester_user_id
        call == [op |-> "statement_create", user_id |-> user_id,
                 category |-> category, text |-> text,
                 desired_start |-> desired_start, desired_end |-> desired_end,
                 vacation_kind |-> vacation_kind]
        Return(r) == resp' = [n \in DOMAIN call \cup DOMAIN r |->
                                 IF n \in DOMAIN r THEN r[n] ELSE call[n]]
    IN
    IF category_error(category) THEN
        Return([kind |-> "error", error |-> "category"]) /\ Unchanged
    ELSE IF text_error(text) THEN
        Return([kind |-> "error", error |-> "empty_text"]) /\ Unchanged
    ELSE IF parse_error(desired_start) \/ parse_error(desired_end) THEN
        \* dt.date.fromisoformat raises ValueError, which nothing catches
        Return([kind |-> "exception", error |-> "ValueError"]) /\ Unchanged
    ELSE
    LET ds == IF StrTruthy(desired_start) THEN fromisoformat(desired_start) ELSE NULL
        de == IF StrTruthy(desired_end) THEN fromisoformat(desired_end) ELSE NULL
        no_dates == /\ Lower(category) \in {"otpusk", "uvolnenie"}
                    /\ (ds = NULL \/ de = NULL)
        no_kind == /\ Lower(category) = "otpusk"
                   /\ (~StrTruthy(vacation_kind) \/ Lower(vacation_kind) \notin valid_kinds)
        missing == (IF no_dates THEN <<"dates">> ELSE <<>>)
                     \o (IF no_kind THEN <<"vacation_kind">> ELSE <<>>)
        kind == IF Lower(category) = "otpusk" /\ ~no_kind
                THEN (IF ContainsSchet(Lower(vacation_kind))
                      THEN "za svoy schyot" ELSE "ocherednoy")
                ELSE vacation_kind
        row == NewStatement(user_id, Lower(category), Strip(text), ds, de, kind)
    IN
    IF missing # <<>> THEN
        Return([kind |-> "error", error |-> "missing", needed |-> missing]) /\ Unchanged
    ELSE IF date_order_error(ds, de) THEN
        Return([kind |-> "error", error |-> "date_order"]) /\ Unchanged
    ELSE IF user_id \notin DOMAIN employees THEN
        \* employee_id REFERENCES employees(id): the INSERT fails, DB.exec rolls
        \* back and raises again
        Return([kind |-> "exception", error |-> "ForeignKeyViolation"]) /\ Unchanged
    ELSE
        /\ employee_statements' = Append(employee_statements, row)
        /\ Return([kind |-> "ok", statement_id |-> row.id, status |-> row.status,
                   created_at |-> row.created_at])
        /\ UNCHANGED <<leaves, today, intent_log, employees, teams, access_rules, now, pc, frame>>

\* The rows of a result set in ORDER BY created_at DESC; rows created at the
\* same instant come in either order.
OrderedByCreatedDesc(rows) ==
    {q \in [1..Cardinality(rows) -> rows] :
        /\ \A i, j \in DOMAIN q : i # j => q[i] # q[j]
        /\ \A i, j \in DOMAIN q : i < j => q[i].created_at >= q[j].created_at}

StatementRows == {employee_statements[i] : i \in DOMAIN employee_statements}

ListedRows_keeps_deleted(scope, user_id, team, with_status) ==
    {s \in StatementRows :
        /\ IF scope = "self" THEN s.employee_id = user_id
           ELSE s.employee_id \in DOMAIN employees
                /\ SqlEq(employees[s.employee_id].team_id, team)
        /\ (with_status => s.status # "otmenena")}

ListedRows_any_team(scope, user_id, team, with_status) ==
    {s \in StatementRows :
        /\ (scope = "self" => s.employee_id = user_id)
        /\ s.deleted_at = NULL
        /\ (with_status => s.status # "otmenena")}

\* The rows the query of a listing tool selects; with_status: statement_active
\* adds "status <> 'отменена'".
ListedRows(scope, user_id, team, with_status) ==
    {s \in StatementRows :
        /\ IF scope = "self" THEN s.employee_id = user_id
           ELSE s.employee_id \in DOMAIN employees
                /\ SqlEq(employees[s.employee_id].team_id, team)
        /\ s.deleted_at = NULL
        /\ (with_status => s.status # "otmenena")}

Listing(op, requester_user_id, scope, with_status) ==
    LET user_id == requester_user_id
        team == user_team_id(user_id)
        call == [op |-> op, user_id |-> user_id, scope |-> scope]
        Return(r) == resp' = [n \in DOMAIN call \cup DOMAIN r |->
                                 IF n \in DOMAIN r THEN r[n] ELSE call[n]]
    IN
    /\ IF scope \notin {"self", "team"} THEN
           Return([kind |-> "error", error |-> "bad_scope"])
       ELSE IF scope = "team" /\ ~Truthy(team) THEN
           Return([kind |-> "error", error |-> "no_team"])
       ELSE IF scope = "team" /\ ~has_access(user_id, "READ_TEAM", NULL, team) THEN
           Return([kind |-> "error", error |-> "no_rights"])
       ELSE
           \E rows \in OrderedByCreatedDesc(ListedRows(scope, user_id, team, with_status)) :
               Return([kind |-> "ok", statements |-> rows])
    /\ Unchanged

statement_list(requester_user_id, scope) ==
    Listing("statement_list", requester_user_id, scope, FALSE)

statement_active(requester_user_id, scope) ==
    Listing("statement_active", requester_user_id, scope, TRUE)

\* SELECT s.*, e.team_id FROM employee_statements s JOIN employees e
\* ON e.id = s.employee_id WHERE s.id = statement_id
SelectStatement(statement_id) ==
    IF /\ statement_id \in DOMAIN employee_statements
       /\ employee_statements[statement_id].employee_id \in DOMAIN employees
    THEN LET s == employee_statements[statement_id]
         IN  [id |-> s.id, employee_id |-> s.employee_id, status |-> s.status,
              deleted_at |-> s.deleted_at,
              team_id |-> employees[s.employee_id].team_id]
    ELSE NoRow

\* owns or is_manager_of(...) or (same_team and has_access(...))
cancel_allowed_no_team_guard(user_id, row) ==
    \/ row.employee_id = user_id
    \/ is_manager_of(user_id, row.employee_id)
    \/ has_access(user_id, "READ_TEAM", NULL, row.team_id)

cancel_allowed(user_id, row) ==
    \/ row.employee_id = user_id
    \/ is_manager_of(user_id, row.employee_id)
    \/ (Truthy(row.team_id) /\ has_access(user_id, "READ_TEAM", NULL, row.team_id))

UpdateCancelled_keeps_status(statement_id, at) ==
    [i \in DOMAIN employee_statements |->
        IF employee_statements[i].id = statement_id
        THEN [employee_statements[i] EXCEPT !.deleted_at = at]
        ELSE employee_statements[i]]

UpdateCancelled_every_row(statement_id, at) ==
    [i \in DOMAIN employee_statements |->
        [employee_statements[i] EXCEPT !.deleted_at = at, !.status = "otmenena"]]

\* UPDATE employee_statements SET deleted_at = at, status = 'отменена' WHERE id = ...
UpdateCancelled(statement_id, at) ==
    [i \in DOMAIN employee_statements |->
        IF employee_statements[i].id = statement_id
        THEN [employee_statements[i] EXCEPT !.deleted_at = at, !.status = "otmenena"]
        ELSE employee_statements[i]]

\* The early returns of statement_cancel for the row it read: "" lets it go on.
cancel_refusal_no_guard(user_id, row) ==
    IF row.id = NULL THEN "not_found"
    ELSE IF ~cancel_allowed(user_id, row) THEN "forbidden"
    ELSE ""

cancel_refusal(user_id, row) ==
    IF row.id = NULL THEN "not_found"
    ELSE IF Truthy(row.deleted_at) THEN "already_cancelled"
    ELSE IF ~cancel_allowed(user_id, row) THEN "forbidden"
    ELSE ""

\* statement_cancel run from its first line to its return with no other call
\* in between.
statement_cancel(statement_id, requester_user_id) ==
    LET user_id == requester_user_id
        row == SelectStatement(statement_id)
        refusal == cancel_refusal(user_id, row)
        call == [op |-> "statement_cancel", user_id |-> user_id,
                 statement_id |-> statement_id]
        Return(r) == resp' = [n \in DOMAIN call \cup DOMAIN r |->
                                 IF n \in DOMAIN r THEN r[n] ELSE call[n]]
    IN
    IF refusal # "" THEN
        Return([kind |-> "error", error |-> refusal]) /\ Unchanged
    ELSE
        /\ employee_statements' = UpdateCancelled(statement_id, now)
        /\ Return([kind |-> "ok", cancelled_at |-> now])
        /\ UNCHANGED <<leaves, today, intent_log, employees, teams, access_rules, now, pc, frame>>

\* Time passes between calls.
Tick ==
    /\ now' = now + 1
    /\ UNCHANGED <<leaves, today, intent_log, employees, teams, access_rules, employee_statements, resp, pc, frame>>

-----------------------------------------------------------------------------
(* Specification Spec: the statement tools called one after another *)

\* The organisations the statement tools start from. Employee 1 is in team 1;
\* employee 2 may report to employee 1 and may be in either team or in none;
\* team 1 may be led by employee 1. access_rules is empty: access to a team
\* comes from the lead shortcut.
SmallOrgs ==
    {e \in Hierarchies(EmployeeRows) : e[1].team_id = 1}

SmallTeams ==
    {t \in [Teams -> TeamRows] : t[1].lead_user_id \in {NULL, 1} /\ t[2].lead_user_id = NULL}

Init ==
    /\ employees \in SmallOrgs
    /\ teams \in SmallTeams
    /\ access_rules = {}
    /\ employee_statements = <<>>
    /\ now = 1
    /\ resp = NoCall
    /\ pc = Idle
    /\ frame = NoFrame
    /\ NoLeaveState

\* The arguments statement_create is called with.
CreateInputs ==
    {[category |-> "drugoe", text |-> " proshu ", desired_start |-> NONE,
      desired_end |-> NONE, vacation_kind |-> NONE],
     [category |-> "Otpusk", text |-> " proshu ", desired_start |-> NONE,
      desired_end |-> NONE, vacation_kind |-> NONE]}

StatementIds == 1..MaxStatements
ListScopes == {"self", "team"}

Create ==
    \E a \in CreateInputs, u \in Users :
        /\ Len(employee_statements) < MaxStatements
        /\ statement_create(a.category, a.text, a.desired_start, a.desired_end,
                            a.vacation_kind, u)

List == \E u \in Users, scope \in ListScopes : statement_list(u, scope)

Active == \E u \in Users, scope \in ListScopes : statement_active(u, scope)

Cancel == \E id \in StatementIds, u \in Users : statement_cancel(id, u)

Pass == now < MaxTime /\ Tick

Next == Create \/ List \/ Active \/ Cancel \/ Pass

Spec == Init /\ [][Next]_vars

-----------------------------------------------------------------------------
(* Specification SpecPerm: who may cancel and who may list. One statement is
   on file, and the organisation and the READ_TEAM rules are arbitrary. *)

\* Enabled READ_TEAM rules of either employee.
PermRuleRows ==
    {r \in RuleRowsFor(Users, {"READ_TEAM"}, {"ALL", "TEAM"}) : r.allow = TRUE}

InitPerm ==
    /\ employees \in Hierarchies(EmployeeRows)
    /\ teams \in [Teams -> TeamRows]
    /\ access_rules \in SubsetsUpTo(PermRuleRows, MaxRules)
    /\ employee_statements \in
           {<<StatementRow(1, owner, "drugoe", "proshu", NULL, NULL, NONE, 1)>> :
               owner \in Users}
    /\ now = 1
    /\ resp = NoCall
    /\ pc = Idle
    /\ frame = NoFrame
    /\ NoLeaveState

\* The listings, called also by a requester without employee row and with a
\* scope that is neither self nor team.
ListAny ==
    \E u \in Requesters, scope \in ListScopes \cup {"all"} : statement_list(u, scope)

ActiveAny ==
    \E u \in Requesters, scope \in ListScopes \cup {"all"} : statement_active(u, scope)

NextPerm == Cancel \/ ListAny \/ ActiveAny

SpecPerm == InitPerm /\ [][NextPerm]_vars

-----------------------------------------------------------------------------
(* Specification SpecConc: statement_cancel calls that interleave. Each call
   runs its SELECT, then its checks, then its UPDATE, and other callers may
   run between any two of them. *)

\* row = DB.one("SELECT ... WHERE s.id = %s")
CancelSelect(c, statement_id, requester_user_id) ==
    /\ pc[c] = "idle"
    /\ frame' = [frame EXCEPT ![c] = [statement_id |-> statement_id,
                                      user_id |-> requester_user_id,
                                      row |-> SelectStatement(statement_id),
                                      result |-> "none",
                                      cancelled_at |-> NULL]]
    /\ pc' = [pc EXCEPT ![c] = "check"]
    /\ UNCHANGED <<leaves, today, intent_log, employees, teams, access_rules, employee_statements, now, resp>>

\* The early returns, decided on the row read before.
CancelCheck(c) ==
    /\ pc[c] = "check"
    /\ LET refusal == cancel_refusal(frame[c].user_id, frame[c].row)
       IN  IF refusal # ""
           THEN /\ frame' = [frame EXCEPT ![c].result = refusal]
                /\ pc' = [pc EXCEPT ![c] = "idle"]
           ELSE /\ pc' = [pc EXCEPT ![c] = "update"]
                /\ UNCHANGED frame
    /\ UNCHANGED <<leaves, today, intent_log, employees, teams, access_rules, employee_statements, now, resp>>

\* now = utcnow(); DB.exec("UPDATE ... WHERE id = %s"); return the success
CancelUpdate(c) ==
    /\ pc[c] = "update"
    /\ employee_statements' = UpdateCancelled(frame[c].statement_id, now)
    /\ frame' = [frame EXCEPT ![c].result = "ok", ![c].cancelled_at = now]
    /\ pc' = [pc EXCEPT ![c] = "idle"]
    /\ UNCHANGED <<leaves, today, intent_log, employees, teams, access_rules, now, resp>>

InitConc ==
    /\ employees \in {e \in SmallOrgs : e[2].team_id = NULL}
    /\ teams \in SmallTeams
    /\ access_rules = {}
    /\ employee_statements = <<>>
    /\ now = 1
    /\ resp = NoCall
    /\ pc = Idle
    /\ frame = NoFrame
    /\ NoLeaveState

BeginCancel ==
    \E c \in Callers, id \in StatementIds, u \in Users : CancelSelect(c, id, u)

Check == \E c \in Callers : CancelCheck(c)

Update == \E c \in Callers : CancelUpdate(c)

NextConc == Create \/ BeginCancel \/ Check \/ Update \/ Pass

SpecConc == InitConc /\ [][NextConc]_vars

-----------------------------------------------------------------------------
(* Specification SpecCreate: one statement_create call with any arguments, by
   an employee or by a requester that has no employee row, on a table that
   holds nothing, one statement, or one cancelled statement. *)

Categories == {"Otpusk", "uvolnenie", "DRUGOE", "premiya"}
Texts == {" proshu ", "  ", ""}
DateInputs == {NONE, ""} \cup IsoDates \cup {"14.06.2025"}
KindInputs == {NONE, "Ocherednoy", "za svoy schyot", "Za svoy schet", "uchebnyy"}

AnyCreateInputs ==
    [category : Categories, text : Texts, desired_start : DateInputs,
     desired_end : DateInputs, vacation_kind : KindInputs]

\* The statement on file when the call comes, as employee 2 created it at time 1.
Filed == StatementRow(1, 2, "drugoe", "proshu", NULL, NULL, NONE, 1)

FiledTables ==
    {<<>>, <<Filed>>, <<[Filed EXCEPT !.deleted_at = 1, !.status = "otmenena"]>>}

InitCreate ==
    /\ employees = [u \in Users |-> [manager_id |-> NULL, team_id |-> 1]]
    /\ teams = [t \in Teams |-> [lead_user_id |-> NULL]]
    /\ access_rules = {}
    /\ employee_statements \in FiledTables
    /\ now = 1
    /\ resp = NoCall
    /\ pc = Idle
    /\ frame = NoFrame
    /\ NoLeaveState

CreateOnce ==
    /\ resp = NoCall
    /\ \E a \in AnyCreateInputs, u \in Requesters :
           statement_create(a.category, a.text, a.desired_start, a.desired_end,
                            a.vacation_kind, u)

NextCreate == CreateOnce

SpecCreate == InitCreate /\ [][NextCreate]_vars

-----------------------------------------------------------------------------
(* Specification SpecTools: every operation that touches the statements,
   called one after another: has_access, the two listings, statement_create
   with arguments that pass and arguments that are rejected, and
   statement_cancel. *)

\* Arguments that statement_create rejects: an unknown category, a text of
\* blanks, a date that is no ISO date, dates in the wrong order.
RejectedInputs ==
    {[category |-> "premiya", text |-> " proshu ", desired_start |-> NONE,
      desired_end |-> NONE, vacation_kind |-> NONE],
     [category |-> "drugoe", text |-> "  ", desired_start |-> NONE,
      desired_end |-> NONE, vacation_kind |-> NONE],
     [category |-> "drugoe", text |-> " proshu ", desired_start |-> "14.06.2025",
      desired_end |-> NONE, vacation_kind |-> NONE],
     [category |-> "uvolnenie", text |-> " proshu ", desired_start |-> "2025-06-14",
      desired_end |-> "2025-06-01", vacation_kind |-> NONE]}

CreateOrReject ==
    \E a \in CreateInputs \cup RejectedInputs, u \in Users :
        /\ Len(employee_statements) < MaxStatements
        /\ statement_create(a.category, a.text, a.desired_start, a.desired_end,
                            a.vacation_kind, u)

\* has_access called on its own, between the calls of the tools.
CheckAccess ==
    \E user_id \in Users, action \in {"READ_SELF", "READ_TEAM"}, team_id \in Teams \cup {NULL} :
        /\ resp' = [op |-> "has_access", user_id |-> user_id, action |-> action,
                    target_user_id |-> NULL, team_id |-> team_id,
                    result |-> has_access(user_id, action, NULL, team_id)]
        /\ Unchanged

NextTools == CreateOrReject \/ List \/ Active \/ Cancel \/ CheckAccess \/ Pass

\* The calls start from the organisations of InitConc: employee 2 has no team,
\* so either employee may be refused the statement of the other.
SpecTools == InitConc /\ [][NextTools]_vars

-----------------------------------------------------------------------------
(* Calendar dates. dt.date is a record of year, month and day; a missing date
   (None, SQL NULL) is NoDate. *)

NoDate == Date(NULL, NULL, NULL)

\* isinstance(d, dt.date)
IsDate(d) == d.year # NULL

is_leap(year) == year % 4 = 0 /\ (year % 100 # 0 \/ year % 400 = 0)

DaysInMonth(year, month) ==
    IF month = 2 THEN (IF is_leap(year) THEN 29 ELSE 28)
    ELSE IF month \in {4, 6, 9, 11} THEN 30
    ELSE 31

\* The dates dt.date(year, month, day) constructs without ValueError.
IsValidDate(d) ==
    /\ d.month \in 1..12
    /\ d.day \in 1..DaysInMonth(d.year, d.month)

RECURSIVE DaysBeforeMonth(_, _)
DaysBeforeMonth(year, month) ==
    IF month = 1 THEN 0
    ELSE DaysBeforeMonth(year, month - 1) + DaysInMonth(year, month - 1)

\* date.toordinal(): the number of the day, 0001-01-01 being day 1.
Ordinal(d) ==
    LET y == d.year - 1
    IN  y * 365 + (y \div 4) - (y \div 100) + (y \div 400)
          + DaysBeforeMonth(d.year, d.month) + d.day

\* a < b, a <= b on dates
DateLT(a, b) == Ordinal(a) < Ordinal(b)
DateLE(a, b) == Ordinal(a) <= Ordinal(b)

\* (b - a).days
DaysBetween(a, b) == Ordinal(b) - Ordinal(a)

Max(a, b) == IF a >= b THEN a ELSE b
Min(a, b) == IF a <= b THEN a ELSE b

-----------------------------------------------------------------------------
(* Leave accrual. Day amounts are integers in hundredths of a day, so that
   2.33 days a month is 233; used_days comes in whole days. *)

PerMonth == 233
FlatPool == 2800

\* The amounts with 5 hundredths that round() takes down, among those the
\* model computes: round() sees the binary double, and 28.0 + 5 * 2.33 = 39.65
\* and 25.0 + 5 * 2.33 = 36.65 are stored below the half, while the other ties
\* the model computes (11.65, 8.65, 34.95, 31.95, 4.95, 62.95, 59.95) are
\* stored above it.
StoredBelowHalf == {3965, 3665}

\* round(x, 1)
round_1(h) ==
    LET r == h % 10
    IN  IF r < 5 THEN h - r
        ELSE IF r > 5 THEN h + (10 - r)
        ELSE IF h \in StoredBelowHalf THEN h - 5 ELSE h + 5

compute_accrued_leave_days(employee, used_days) ==
    LET hired_at == employee.hired_at
    IN  IF ~IsDate(hired_at) THEN Max(0, FlatPool - 100 * used_days)
        ELSE LET months == (today.year - hired_at.year) * 12
                               + (today.month - hired_at.month)
                 accrued == Max(0, months * PerMonth - 100 * used_days)
             IN  round_1(accrued)

months_between_day_flipped(start, end) ==
    LET diff == (end.year - start.year) * 12 + (end.month - start.month)
    IN  Max(0, IF end.day > start.day THEN diff - 1 ELSE diff)

months_between(start, end) ==
    LET diff == (end.year - start.year) * 12 + (end.month - start.month)
    IN  Max(0, IF end.day < start.day THEN diff - 1 ELSE diff)

compute_accrued_leave_days_as_of_no_floor(employee, used_days, as_of) ==
    LET hired_at == employee.hired_at
    IN  IF ~IsDate(hired_at)
        THEN LET base_today_balance == compute_accrued_leave_days(employee, used_days)
                 extra_months == months_between(today, as_of)
             IN  round_1(base_today_balance + extra_months * PerMonth)
        ELSE LET months == months_between(hired_at, as_of)
                 accrued == months * PerMonth - 100 * used_days
             IN  round_1(accrued)

compute_accrued_leave_days_as_of(employee, used_days, as_of) ==
    LET hired_at == employee.hired_at
    IN  IF ~IsDate(hired_at)
        THEN LET base_today_balance == compute_accrued_leave_days(employee, used_days)
                 extra_months == months_between(today, as_of)
             IN  round_1(base_today_balance + extra_months * PerMonth)
        ELSE LET months == months_between(hired_at, as_of)
                 accrued == Max(0, months * PerMonth - 100 * used_days)
             IN  round_1(accrued)

-----------------------------------------------------------------------------
(* Specification SpecAccrual: the two balance computations called once, for
   an employee with or without hire date, on any day; days pass before the
   call. *)

AccrualYears == {2023, 2024}
AccrualMonths == {1, 2, 6, 12}
AccrualDays == {10, 15, 20, 28, 31}

AccrualDates ==
    {d \in [year : AccrualYears, month : AccrualMonths, day : AccrualDays] : IsValidDate(d)}

\* used_days, as used_leave_days sums them: whole days, none, few, or more than
\* the flat pool.
UsedDays == {0, 3, 30}

\* The employee whose balance is computed is employee 1.
Hired(h) == [u \in Users |-> [manager_id |-> NULL, team_id |-> 1, hired_at |-> h]]

InitAccrual ==
    /\ employees \in {Hired(h) : h \in AccrualDates \cup {NoDate}}
    /\ teams = [t \in Teams |-> [lead_user_id |-> NULL]]
    /\ access_rules = {}
    /\ employee_statements = <<>>
    /\ now = 1
    /\ resp = NoCall
    /\ pc = Idle
    /\ frame = NoFrame
    /\ leaves = {}
    /\ today \in AccrualDates
    /\ intent_log = <<>>

\* The calendar moves on to a later day.
DayPass ==
    /\ resp = NoCall
    /\ \E d \in AccrualDates : DateLT(today, d) /\ today' = d
    /\ UNCHANGED <<leaves, intent_log, employees, teams, access_rules,
                   employee_statements, now, resp, pc, frame>>

AccrueToday ==
    /\ resp = NoCall
    /\ \E used_days \in UsedDays :
           resp' = [op |-> "compute_accrued_leave_days",
                    hired_at |-> employees[1].hired_at, used_days |-> used_days,
                    ref |-> today,
                    result |-> compute_accrued_leave_days(employees[1], used_days)]
    /\ Unchanged

AccrueAsOf ==
    /\ resp = NoCall
    /\ \E used_days \in UsedDays, as_of \in AccrualDates :
           resp' = [op |-> "compute_accrued_leave_days_as_of",
                    hired_at |-> employees[1].hired_at, used_days |-> used_days,
                    ref |-> as_of,
                    result |-> compute_accrued_leave_days_as_of(employees[1], used_days, as_of)]
    /\ Unchanged

NextAccrual == DayPass \/ AccrueToday \/ AccrueAsOf

SpecAccrual == InitAccrual /\ [][NextAccrual]_vars

-----------------------------------------------------------------------------
(* leave_balance_forecast. A date argument is the date its string spells:
   NoDate for None or "", a record that is no calendar date (February 30) for
   a string dt.date.fromisoformat rejects. *)

\* SELECT COALESCE(SUM(end_date - start_date + 1), 0) over a set of rows
RECURSIVE SumDays(_)
SumDays(rows) ==
    IF rows = {} THEN 0
    ELSE LET r == CHOOSE x \in rows : TRUE
         IN  DaysBetween(r.start_date, r.end_date) + 1 + SumDays(rows \ {r})

used_leave_days(employee_id) ==
    SumDays({r \in leaves : r.employee_id = employee_id /\ r.status = "approved"})

\* WHERE employee_id = .. AND status = 'approved' AND start_date >= today
\* AND end_date <= as_of
rows_future_any_start(user_id, as_of) ==
    {r \in leaves : /\ r.employee_id = user_id
                    /\ r.status = "approved"
                    /\ DateLE(r.end_date, as_of)}

rows_future(user_id, as_of) ==
    {r \in leaves : /\ r.employee_id = user_id
                    /\ r.status = "approved"
                    /\ DateLE(today, r.start_date)
                    /\ DateLE(r.end_date, as_of)}

\* planned = max(0, (pe - ps).days + 1), or max(0, int(planned_days)), or 0
planned_amount_exclusive(planned_days, planned_start, planned_end) ==
    IF IsDate(planned_start) /\ IsDate(planned_end)
    THEN Max(0, DaysBetween(planned_start, planned_end))
    ELSE IF Truthy(planned_days) THEN Max(0, planned_days)
    ELSE 0

planned_amount(planned_days, planned_start, planned_end) ==
    IF IsDate(planned_start) /\ IsDate(planned_end)
    THEN Max(0, DaysBetween(planned_start, planned_end) + 1)
    ELSE IF Truthy(planned_days) THEN Max(0, planned_days)
    ELSE 0

leave_balance_forecast(target_date, requester_user_id, planned_days, planned_start, planned_end) ==
    LET user_id == requester_user_id
        call == [op |-> "leave_balance_forecast", user_id |-> user_id,
                 target_date |-> target_date, planned_days |-> planned_days,
                 planned_start |-> planned_start, planned_end |-> planned_end]
        Return(r) == resp' = [n \in DOMAIN call \cup DOMAIN r |->
                                 IF n \in DOMAIN r THEN r[n] ELSE call[n]]
    IN
    IF ~IsValidDate(target_date) THEN
        Return([kind |-> "error", error |-> "target_date"]) /\ Unchanged
    ELSE IF user_id \notin DOMAIN employees THEN
        Return([kind |-> "error", error |-> "not_found"]) /\ Unchanged
    ELSE
    LET as_of == target_date
        employee == employees[user_id]
        used_all == used_leave_days(user_id)
        current_balance_today == compute_accrued_leave_days(employee, used_all)
        approved_future_days == SumDays(rows_future(user_id, as_of))
        extra_months == months_between(today, as_of)
        accrued_future == extra_months * PerMonth
        base_balance_at_target ==
            current_balance_today + accrued_future - 100 * approved_future_days
    IN
    IF /\ IsDate(planned_start) /\ IsDate(planned_end)
       /\ (~IsValidDate(planned_start) \/ ~IsValidDate(planned_end)) THEN
        Return([kind |-> "error", error |-> "planned_dates"]) /\ Unchanged
    ELSE
    LET planned == planned_amount(planned_days, planned_start, planned_end)
    IN  /\ Return([kind |-> "ok",
                   as_of |-> as_of,
                   current_balance_today |-> current_balance_today,
                   accrued_future_days |-> accrued_future,
                   approved_future_days |-> approved_future_days,
                   base_balance_at_target |-> base_balance_at_target,
                   planned |-> planned,
                   balance_with_planned |-> base_balance_at_target - 100 * planned])
        /\ Unchanged

-----------------------------------------------------------------------------
(* Specification SpecForecast: one leave_balance_forecast call with any
   arguments, on any leaves table over a fixed family of rows. *)

LeaveRow(id, employee_id, start_date, end_date, status) ==
    [id |-> id, employee_id |-> employee_id, start_date |-> start_date,
     end_date |-> end_date, status |-> status]

\* Leaves of employee 1 before today, around today, after today and after the
\* target dates, a leave that is not approved, and a leave of employee 2.
LeaveRows ==
    { LeaveRow(1, 1, Date(2023, 7, 1), Date(2023, 7, 10), "approved"),
      LeaveRow(2, 1, Date(2024, 1, 18), Date(2024, 1, 22), "approved"),
      LeaveRow(3, 1, Date(2024, 2, 1), Date(2024, 2, 5), "approved"),
      LeaveRow(4, 1, Date(2024, 2, 10), Date(2024, 2, 12), "pending"),
      LeaveRow(5, 1, Date(2024, 6, 1), Date(2024, 6, 3), "approved"),
      LeaveRow(6, 2, Date(2024, 2, 1), Date(2024, 2, 5), "approved") }

ForecastDays == {Date(2024, 1, 10), Date(2024, 1, 20)}

\* a string that is no ISO date
BadDate == Date(2024, 2, 30)

TargetDates ==
    {Date(2024, 1, 5), Date(2024, 3, 5), Date(2024, 3, 20), NoDate, BadDate}

PlannedDates == {NoDate, Date(2024, 2, 20), Date(2024, 2, 24), BadDate}

PlannedDays == {NULL, 3, -2}

InitForecast ==
    /\ employees \in {Hired(h) : h \in {Date(2023, 1, 15), NoDate}}
    /\ teams = [t \in Teams |-> [lead_user_id |-> NULL]]
    /\ access_rules = {}
    /\ employee_statements = <<>>
    /\ now = 1
    /\ resp = NoCall
    /\ pc = Idle
    /\ frame = NoFrame
    /\ leaves \in SUBSET LeaveRows
    /\ today \in ForecastDays
    /\ intent_log = <<>>

Forecast ==
    /\ resp = NoCall
    /\ \E target_date \in TargetDates, u \in {1, 3}, planned_days \in PlannedDays,
          planned_start \in PlannedDates, planned_end \in PlannedDates :
           leave_balance_forecast(target_date, u, planned_days, planned_start, planned_end)

NextForecast == Forecast

SpecForecast == InitForecast /\ [][NextForecast]_vars

-----------------------------------------------------------------------------
(* next_birthday(birth_date, today), one pass of its loop at a time. The
   running call is held in resp: its arguments, the local year, the candidate
   built last, the number of candidates built so far, and the returned date
   once the loop is left. *)

\* year = today.year
first_year_before(ref) == ref.year - 1

first_year(ref) == ref.year

\* day = birth_date.day; 28 for February 29 when the year is not a leap year;
\* candidate = dt.date(year, birth_date.month, day)
birthday_candidate_no_substitute(birth_date, year) ==
    Date(year, birth_date.month, birth_date.day)

birthday_candidate_always_28(birth_date, year) ==
    LET day == IF birth_date.month = 2 /\ birth_date.day = 29
               THEN 28 ELSE birth_date.day
    IN  Date(year, birth_date.month, day)

birthday_candidate(birth_date, year) ==
    LET day == IF birth_date.month = 2 /\ birth_date.day = 29 /\ ~is_leap(year)
               THEN 28 ELSE birth_date.day
    IN  Date(year, birth_date.month, day)

next_birthday_begin(birth_date, ref) ==
    /\ resp' = [op |-> "next_birthday", birth_date |-> birth_date, today |-> ref,
                year |-> first_year(ref), candidate |-> NoDate, candidates |-> 0,
                at |-> "loop", result |-> NoDate]
    /\ Unchanged

next_birthday_loop ==
    /\ resp.op = "next_birthday"
    /\ resp.at = "loop"
    /\ LET candidate == birthday_candidate(resp.birth_date, resp.year)
           built == [resp EXCEPT !.candidate = candidate,
                                 !.candidates = resp.candidates + 1]
       IN  IF DateLE(resp.today, candidate)
           THEN resp' = [built EXCEPT !.at = "done", !.result = candidate]
           ELSE resp' = [built EXCEPT !.year = resp.year + 1]
    /\ Unchanged

-----------------------------------------------------------------------------
(* Specification SpecBirthday: next_birthday called once, for any birth date
   and on any day; SpecBirthdayFair adds that a started loop keeps running. *)

MonthDays == {<<1, 1>>, <<2, 28>>, <<2, 29>>, <<3, 1>>, <<6, 15>>, <<12, 31>>}

DatesIn(years) ==
    {d \in {Date(y, md[1], md[2]) : y \in years, md \in MonthDays} : IsValidDate(d)}

BirthDates == DatesIn({1999, 2000})

\* Leap years, the years before and after them, and the turn of a century
\* that is no leap year.
RefDates == DatesIn({2023, 2024, 2025, 2027, 2099, 2100})

InitBirthday ==
    /\ employees = Hired(NoDate)
    /\ teams = [t \in Teams |-> [lead_user_id |-> NULL]]
    /\ access_rules = {}
    /\ employee_statements = <<>>
    /\ now = 1
    /\ resp = NoCall
    /\ pc = Idle
    /\ frame = NoFrame
    /\ leaves = {}
    /\ today \in RefDates
    /\ intent_log = <<>>

BirthdayCall ==
    /\ resp = NoCall
    /\ \E birth_date \in BirthDates : next_birthday_begin(birth_date, today)

BirthdayLoop == next_birthday_loop

NextBirthday == BirthdayCall \/ BirthdayLoop

SpecBirthday == InitBirthday /\ [][NextBirthday]_vars

SpecBirthdayFair == SpecBirthday /\ WF_vars(BirthdayLoop)

-----------------------------------------------------------------------------
(* The intent log: session_log_intent and session_intent_history over the
   deque _INTENT_LOG. *)

\* deque(maxlen=20)
IntentLogMaxlen == 20

\* seq[-k:] for k >= 1
LastItems(seq, k) == SubSeq(seq, Max(1, Len(seq) - k + 1), Len(seq))

\* deque.append(entry) on a deque with maxlen: a full deque drops its oldest
\* entry
deque_append_unbounded(log, entry) == Append(log, entry)

deque_append_drops_newest(log, entry) ==
    IF Len(log) = IntentLogMaxlen THEN log ELSE Append(log, entry)

deque_append(log, entry) ==
    IF Len(log) = IntentLogMaxlen THEN Append(Tail(log), entry)
    ELSE Append(log, entry)

\* The timestamp of an entry is the clock at the call; the clock has moved on
\* when the next call is made.
session_log_intent(intent, requester_user_id) ==
    LET user_id == requester_user_id
        call == [op |-> "session_log_intent", user_id |-> user_id, intent |-> intent]
        Return(r) == resp' = [n \in DOMAIN call \cup DOMAIN r |->
                                 IF n \in DOMAIN r THEN r[n] ELSE call[n]]
    IN
    IF Strip(intent) = "" THEN
        Return([kind |-> "error", error |-> "empty_intent"]) /\ Unchanged
    ELSE
    LET entry == [timestamp |-> now, requester_user_id |-> user_id,
                  intent |-> Strip(intent)]
        log == deque_append(intent_log, entry)
    IN  /\ intent_log' = log
        /\ Return([kind |-> "ok", logged |-> entry, recent |-> LastItems(log, 5)])
        /\ now' = now + 1
        /\ UNCHANGED <<leaves, today, employees, teams, access_rules,
                       employee_statements, pc, frame>>

session_intent_history(limit) ==
    LET limit_ == Max(1, Min(limit, Len(intent_log)))
    IN  /\ resp' = [op |-> "session_intent_history", limit |-> limit,
                    kind |-> "ok", intents |-> LastItems(intent_log, limit_)]
        /\ Unchanged

-----------------------------------------------------------------------------
(* Specification SpecIntent: intents logged one after another, more of them
   than the log holds, and the history read in between. *)

MaxIntents == 22     \* intents accepted in one behaviour

Intents == {" proshu ", "  ", ""}

HistoryLimits == {-1, 0, 1, 5, 20, 25}

InitIntent ==
    /\ employees = Hired(NoDate)
    /\ teams = [t \in Teams |-> [lead_user_id |-> NULL]]
    /\ access_rules = {}
    /\ employee_statements = <<>>
    /\ now = 1
    /\ resp = NoCall
    /\ pc = Idle
    /\ frame = NoFrame
    /\ NoLeaveState

LogIntent ==
    /\ now <= MaxIntents
    /\ \E intent \in Intents : session_log_intent(intent, 1)

History == \E limit \in HistoryLimits : session_intent_history(limit)

NextIntent == LogIntent \/ History

SpecIntent == InitIntent /\ [][NextIntent]_vars

-----------------------------------------------------------------------------
(* Claims about has_access, checked under SpecAcl *)

IsAclCall == resp.op = "has_access"

\* Step 1 of the resolver as the specification words it.
ReadsSelf == resp.action = "READ_SELF" /\ resp.target_user_id = resp.user_id

\* The employee row of the requested target names the actor as manager.
ActorManagesTarget ==
    /\ resp.target_user_id \in DOMAIN employees
    /\ employees[resp.target_user_id].manager_id = resp.user_id

\* A team is requested and its row names the actor as lead.
ActorLeadsTeam ==
    /\ resp.team_id \in DOMAIN teams
    /\ teams[resp.team_id].lead_user_id = resp.user_id

\* An enabled rule of the calling actor for the requested action.
EnabledForCall(r) ==
    r.user_id = resp.user_id /\ r.action = resp.action /\ r.allow = TRUE

\* Scope matching as the specification words it for every scope but SELF.
ScopeMatchesCall(r) ==
    \/ r.scope = "ALL"
    \/ r.scope = "USER" /\ resp.target_user_id # NULL
                        /\ r.target_user_id = resp.target_user_id
    \/ r.scope \in {"TEAM", "TEAM_ONLY"} /\ resp.team_id # NULL
                                         /\ r.team_id = resp.team_id
    \/ r.scope = "SUBORDINATES"

\* C1: has_access(actor, "READ_COLLEAGUE", target, team) is true for every actor,
\* target and team, whatever the tables hold.
C1_ReadColleagueAlwaysAllowed ==
    (IsAclCall /\ resp.action = "READ_COLLEAGUE") => resp.result = TRUE

C1_Witness ==
    /\ IsAclCall /\ resp.action = "READ_COLLEAGUE"
    /\ access_rules = {}
    /\ resp.target_user_id \notin {NULL, resp.user_id}
    /\ ~ActorManagesTarget
    /\ resp.result = TRUE

\* C2: has_access(actor, "READ_SELF", target_user_id = actor) is true for every
\* actor, whatever the tables hold.
C2_ReadSelfReflexive ==
    (IsAclCall /\ ReadsSelf) => resp.result = TRUE

C2_Witness ==
    /\ IsAclCall /\ ReadsSelf
    /\ access_rules = {}
    /\ resp.result = TRUE

\* C3: default deny. For an action other than READ_COLLEAGUE the call is refused
\* when it is no READ_SELF on oneself, no manager or lead shortcut applies and no
\* enabled rule of the actor for the action matches by scope (SELF: the target
\* is the actor).
C3_DefaultDeny ==
    ( /\ IsAclCall
      /\ resp.action # "READ_COLLEAGUE"
      /\ ~ReadsSelf
      /\ ~(resp.action \in ShortcutActions /\ (ActorManagesTarget \/ ActorLeadsTeam))
      /\ ~\E r \in access_rules :
             /\ EnabledForCall(r)
             /\ \/ ScopeMatchesCall(r)
                \/ r.scope = "SELF" /\ resp.target_user_id = resp.user_id )
    => resp.result = FALSE

\* C4: an enabled SELF rule authorizes only a call whose target is the actor:
\* with another target or none, and nothing else that grants, the call is refused.
C4_SelfScopeNeedsSelfTarget ==
    ( /\ IsAclCall
      /\ \E r \in access_rules : EnabledForCall(r) /\ r.scope = "SELF"
      /\ resp.target_user_id # resp.user_id
      /\ resp.action # "READ_COLLEAGUE"
      /\ ~(resp.action \in ShortcutActions /\ (ActorManagesTarget \/ ActorLeadsTeam))
      /\ ~\E r \in access_rules :
             EnabledForCall(r) /\ r.scope # "SELF" /\ ScopeMatchesCall(r) )
    => resp.result = FALSE

\* C5: for READ_TEAM and VIEW_SALARY_SUBORDINATES the manager relation or the
\* lead relation grants access without any rule; for any other action the two
\* relations grant nothing: without step 1, the fallback or an enabled rule of
\* the actor for that action the call is refused.
C5_ManagerLeadShortcut ==
    IsAclCall =>
        /\ (resp.action \in ShortcutActions /\ (ActorManagesTarget \/ ActorLeadsTeam))
               => resp.result = TRUE
        /\ ( /\ resp.action \notin ShortcutActions
             /\ resp.action # "READ_COLLEAGUE"
             /\ ~ReadsSelf
             /\ ~\E r \in access_rules : EnabledForCall(r) )
               => resp.result = FALSE

C5_Witness ==
    /\ IsAclCall
    /\ resp.action = "READ_TEAM"
    /\ ActorManagesTarget
    /\ ~ActorLeadsTeam
    /\ access_rules = {}
    /\ resp.result = TRUE

\* C6: in the rule-table step (no step 1, no shortcut, no fallback, no enabled
\* SELF rule) the call is granted exactly when an enabled rule of the actor for
\* the action has scope ALL or SUBORDINATES, or scope USER with the requested
\* target, or scope TEAM / TEAM_ONLY with the requested team; a request without
\* target (team) matches no USER (TEAM) rule.
C6_ScopeMatching ==
    ( /\ IsAclCall
      /\ resp.action # "READ_COLLEAGUE"
      /\ ~ReadsSelf
      /\ ~(resp.action \in ShortcutActions /\ (ActorManagesTarget \/ ActorLeadsTeam))
      /\ ~\E r \in access_rules : EnabledForCall(r) /\ r.scope = "SELF" )
    => ( resp.result =
            \E r \in access_rules : EnabledForCall(r) /\ ScopeMatchesCall(r) )

C6_Witness ==
    /\ IsAclCall
    /\ resp.action = "READ_TEAM"
    /\ ~ActorManagesTarget /\ ~ActorLeadsTeam
    /\ \E r \in access_rules :
           EnabledForCall(r) /\ r.scope = "USER"
           /\ r.target_user_id = resp.target_user_id
    /\ resp.target_user_id # NULL
    /\ resp.result = TRUE

-----------------------------------------------------------------------------
(* Claims about statement_cancel run without interleaving, checked under Spec
   (C7, C10) and SpecPerm (C9) *)

\* The step is a call statement_cancel(id, u): every tool call writes resp and
\* leaves the clock alone.
IsCancelStep(id, u) ==
    /\ now' = now
    /\ resp'.op = "statement_cancel"
    /\ resp'.statement_id = id
    /\ resp'.user_id = u

Exists(id) == id \in DOMAIN employee_statements
IsActive(id) == Exists(id) /\ employee_statements[id].deleted_at = NULL
IsDeleted(id) == Exists(id) /\ employee_statements[id].deleted_at # NULL
Owner(id) == employee_statements[id].employee_id

\* C7: a statement_cancel that succeeds sets deleted_at to the time of the call
\* and status to 'отменена'; a statement_cancel on a statement already cancelled
\* returns the already-cancelled error and leaves deleted_at as the first call
\* wrote it.
C7_CancelIdempotent ==
    [][\A id \in StatementIds, u \in Users :
          IsCancelStep(id, u) =>
              /\ resp'.kind = "ok" =>
                     /\ IsActive(id)
                     /\ employee_statements'[id].deleted_at = now
                     /\ employee_statements'[id].status = "otmenena"
              /\ IsDeleted(id) =>
                     /\ resp'.kind = "error"
                     /\ resp'.error = "already_cancelled"
                     /\ employee_statements'[id].deleted_at
                            = employee_statements[id].deleted_at]_vars

\* The second call came at a later time than the first and kept its timestamp.
C7_Witness ==
    /\ resp.op = "statement_cancel"
    /\ resp.kind = "error" /\ resp.error = "already_cancelled"
    /\ resp.user_id = Owner(resp.statement_id)
    /\ employee_statements[resp.statement_id].deleted_at < now
    /\ employee_statements[resp.statement_id].status = "otmenena"

\* C9 as claimed: on an active statement, statement_cancel succeeds exactly when
\* the actor is the owner, or the direct manager of the owner, or
\* has_access(actor, "READ_TEAM", team_id = owner's team) is true, also when the
\* owner has no team; otherwise it returns the permission error and changes
\* nothing.
C9_CancelPermission_AsClaimed ==
    [][\A id \in StatementIds, u \in Users :
          (IsCancelStep(id, u) /\ IsActive(id)) =>
              LET owner == Owner(id)
                  permitted ==
                      \/ owner = u
                      \/ employees[owner].manager_id = u
                      \/ has_access(u, "READ_TEAM", NULL, employees[owner].team_id)
              IN  IF permitted
                  THEN /\ resp'.kind = "ok"
                       /\ employee_statements'[id].deleted_at # NULL
                  ELSE /\ resp'.kind = "error" /\ resp'.error = "forbidden"
                       /\ employee_statements' = employee_statements]_vars

\* C9 amended: as claimed, but has_access(actor, "READ_TEAM", team_id = owner's
\* team) counts only when the owner has a team.
C9_CancelPermission ==
    [][\A id \in StatementIds, u \in Users :
          (IsCancelStep(id, u) /\ IsActive(id)) =>
              LET owner == Owner(id)
                  permitted ==
                      \/ owner = u
                      \/ employees[owner].manager_id = u
                      \/ /\ employees[owner].team_id # NULL
                         /\ has_access(u, "READ_TEAM", NULL, employees[owner].team_id)
              IN  IF permitted
                  THEN /\ resp'.kind = "ok"
                       /\ employee_statements'[id].deleted_at # NULL
                  ELSE /\ resp'.kind = "error" /\ resp'.error = "forbidden"
                       /\ employee_statements' = employee_statements]_vars

\* A cancellation granted by has_access alone: the actor is neither the owner
\* nor the owner's manager, and the owner has a team.
C9_Witness ==
    /\ resp.op = "statement_cancel"
    /\ resp.kind = "ok"
    /\ Owner(resp.statement_id) # resp.user_id
    /\ employees[Owner(resp.statement_id)].manager_id # resp.user_id
    /\ employees[Owner(resp.statement_id)].team_id # NULL
    /\ employee_statements[resp.statement_id].deleted_at = resp.cancelled_at

\* C10: soft-delete is terminal. A statement with deleted_at set keeps deleted_at
\* set and status 'отменена' through every later statement_create,
\* statement_list, statement_active and statement_cancel.
C10_SoftDeleteTerminal ==
    [][\A id \in StatementIds :
          /\ IsDeleted(id) =>
                 /\ id \in DOMAIN employee_statements'
                 /\ employee_statements'[id].deleted_at # NULL
          /\ (id \in DOMAIN employee_statements'
                /\ employee_statements'[id].deleted_at # NULL)
                 => employee_statements'[id].status = "otmenena"]_vars

\* A later statement_create succeeded and the cancelled statement is still
\* cancelled.
C10_Witness ==
    /\ resp.op = "statement_create" /\ resp.kind = "ok"
    /\ resp.statement_id > 1
    /\ IsDeleted(1)
    /\ employee_statements[1].status = "otmenena"
    /\ employee_statements[1].deleted_at <= resp.created_at

-----------------------------------------------------------------------------
(* Claims about the listings statement_list and statement_active, checked
   under Spec (C11) and SpecPerm (C18, C19). resp holds the last call, and no
   table has changed since that call returned. *)

IsListing == resp.op \in {"statement_list", "statement_active"}

\* The ids of the rows the listing of resp returned.
ListedIds == {resp.statements[i].id : i \in DOMAIN resp.statements}

\* C11: after any sequence of create and cancel, statement_list and
\* statement_active, scope self or team, return no statement whose deleted_at is
\* set, and statement_list with scope self returns every statement of the actor
\* whose deleted_at is null.
C11_ListingsExcludeDeleted ==
    (IsListing /\ resp.kind = "ok") =>
        /\ \A id \in ListedIds : IsActive(id)
        /\ (resp.op = "statement_list" /\ resp.scope = "self") =>
               ListedIds = {id \in DOMAIN employee_statements :
                               IsActive(id) /\ Owner(id) = resp.user_id}

\* A team listing that shows one statement while another statement of the team
\* is cancelled.
C11_Witness ==
    /\ resp.op = "statement_list" /\ resp.scope = "team" /\ resp.kind = "ok"
    /\ Cardinality(ListedIds) = 1
    /\ \E id \in DOMAIN employee_statements :
           /\ IsDeleted(id)
           /\ employees[Owner(id)].team_id = employees[resp.user_id].team_id

\* The team of the actor of resp as the employees table has it.
ActorTeam ==
    IF resp.user_id \in DOMAIN employees THEN employees[resp.user_id].team_id ELSE NULL

\* C18: with scope team, statement_list and statement_active of an actor that
\* has a team return statements exactly when has_access(actor, "READ_TEAM",
\* team_id = actor's team) is true; when it is false they return the permission
\* error and no rows; the rows returned belong to employees of the actor's team.
C18_TeamListingNeedsAccess ==
    (IsListing /\ resp.scope = "team") =>
        LET granted == has_access(resp.user_id, "READ_TEAM", NULL, ActorTeam)
        IN  /\ resp.kind = "ok" =>
                   /\ ActorTeam # NULL
                   /\ granted
                   /\ \A id \in ListedIds : employees[Owner(id)].team_id = ActorTeam
            /\ (ActorTeam # NULL /\ granted) => resp.kind = "ok"
            /\ (ActorTeam # NULL /\ ~granted) =>
                   /\ resp.kind = "error" /\ resp.error = "no_rights"
                   /\ "statements" \notin DOMAIN resp

\* The actor sees the statement of a colleague of the team.
C18_Witness ==
    /\ IsListing /\ resp.scope = "team" /\ resp.kind = "ok"
    /\ \E id \in ListedIds : Owner(id) # resp.user_id
    /\ teams[ActorTeam].lead_user_id # resp.user_id

\* C19: statement_list with scope team for an actor whose employee row has no
\* team, or that has no employee row, returns the 'no team' error and never a
\* list of statements.
C19_NoTeamError ==
    ( /\ resp.op = "statement_list" /\ resp.scope = "team"
      /\ \/ resp.user_id \notin DOMAIN employees
         \/ employees[resp.user_id].team_id = NULL )
    => /\ resp.kind = "error" /\ resp.error = "no_team"
       /\ "statements" \notin DOMAIN resp

\* An employee without team that a rule lets read any team gets the error.
C19_Witness ==
    /\ resp.op = "statement_list" /\ resp.scope = "team"
    /\ resp.user_id \in DOMAIN employees
    /\ employees[resp.user_id].team_id = NULL
    /\ has_access(resp.user_id, "READ_TEAM", NULL, NULL)
    /\ resp.kind = "error" /\ resp.error = "no_team"

-----------------------------------------------------------------------------
(* Claims about statement_create, checked under SpecCreate. The validations
   run in the order category, text, dates parsed, missing fields, date order;
   a claim about one of them speaks of the calls that reach it. *)

\* The step is a call of statement_create.
IsCreateStep == now' = now /\ resp'.op = "statement_create"

NoRowInserted == employee_statements' = employee_statements

Absent(s) == s \in {NONE, ""}
CategoryOf(call) == Lower(call.category)
CategoryKnown(call) == CategoryOf(call) \in {"otpusk", "uvolnenie", "drugoe"}
TextGiven(call) == Strip(call.text) # ""
WellFormed(s) == Absent(s) \/ s \in IsoDates
Malformed(s) == ~WellFormed(s)
BothDates(call) == call.desired_start \in IsoDates /\ call.desired_end \in IsoDates
StartAfterEnd(call) ==
    BothDates(call) /\ fromisoformat(call.desired_start) > fromisoformat(call.desired_end)
KindValid(call) ==
    /\ ~Absent(call.vacation_kind)
    /\ Lower(call.vacation_kind) \in {"ocherednoy", "za svoy schyot", "za svoy schet"}

IsMissingFields(r) == r.kind = "error" /\ r.error = "missing"
Names(r, field) == \E i \in DOMAIN r.needed : r.needed[i] = field

\* The row the call of resp inserted.
Created == employee_statements[resp.statement_id]

\* C12: statement_create with category 'отпуск' or 'увольнение' (and a text)
\* and desired_start or desired_end absent returns the missing-fields error
\* whose 'needed' list names the dates, and inserts no row.
C12_MissingDates ==
    [][( /\ IsCreateStep
         /\ CategoryOf(resp') \in {"otpusk", "uvolnenie"}
         /\ TextGiven(resp')
         /\ (Absent(resp'.desired_start) \/ Absent(resp'.desired_end)) )
       => /\ IsMissingFields(resp')
          /\ Names(resp', "dates")
          /\ NoRowInserted]_vars

\* C13: for category 'отпуск' with a text and well-formed dates, a vacation_kind
\* that is absent or, lower-cased, outside {'очередной', 'за свой счёт',
\* 'за свой счет'} gives the missing-fields error naming the kind and no row;
\* a row that is stored holds 'очередной' for 'очередной' and 'за свой счёт'
\* for either spelling of the other kind.
C13_VacationKindCanonical ==
    [][( /\ IsCreateStep
         /\ CategoryOf(resp') = "otpusk"
         /\ TextGiven(resp')
         /\ WellFormed(resp'.desired_start) /\ WellFormed(resp'.desired_end) )
       => IF ~KindValid(resp')
          THEN /\ IsMissingFields(resp')
               /\ Names(resp', "vacation_kind")
               /\ NoRowInserted
          ELSE resp'.kind = "ok" =>
                  employee_statements'[resp'.statement_id].vacation_kind =
                      (IF Lower(resp'.vacation_kind) = "ocherednoy"
                       THEN "ocherednoy" ELSE "za svoy schyot")]_vars

\* C14: statement_create with both dates given and desired_start later than
\* desired_end fails and inserts no row, with the date-order error when the
\* category, the text and the vacation kind pass; every stored statement with
\* both dates has desired_start <= desired_end.
C14_DateOrder ==
    [][IsCreateStep =>
          /\ StartAfterEnd(resp') =>
                 /\ resp'.kind = "error"
                 /\ NoRowInserted
                 /\ ( /\ CategoryKnown(resp')
                      /\ TextGiven(resp')
                      /\ (CategoryOf(resp') = "otpusk" => KindValid(resp')) )
                        => resp'.error = "date_order"
          /\ \A i \in DOMAIN employee_statements' :
                 LET s == employee_statements'[i]
                 IN  (s.desired_start # NULL /\ s.desired_end # NULL)
                         => s.desired_start <= s.desired_end]_vars

\* A leave request with everything but the order of its dates right.
C14_Witness ==
    /\ resp.op = "statement_create"
    /\ resp.category = "Otpusk" /\ KindValid(resp)
    /\ resp.desired_start = "2025-06-14" /\ resp.desired_end = "2025-06-01"
    /\ resp.kind = "error" /\ resp.error = "date_order"
    /\ employee_statements = <<Filed>>

\* C15: statement_create fails with a validation error and inserts no row when
\* the lower-cased category is none of 'отпуск', 'увольнение', 'другое' or the
\* text is empty after trimming; every stored statement has a category of that
\* set and a trimmed, non-empty body.
C15_CategoryAndText ==
    [][IsCreateStep =>
          /\ (~CategoryKnown(resp') \/ ~TextGiven(resp')) =>
                 /\ resp'.kind = "error"
                 /\ resp'.error = (IF ~CategoryKnown(resp') THEN "category" ELSE "empty_text")
                 /\ NoRowInserted
          /\ \A i \in DOMAIN employee_statements' :
                 LET s == employee_statements'[i]
                 IN  /\ s.category \in {"otpusk", "uvolnenie", "drugoe"}
                     /\ s.body # ""
                     /\ Strip(s.body) = s.body]_vars

\* The category passes in capitals and the text of blanks is refused.
C15_Witness ==
    /\ resp.op = "statement_create"
    /\ resp.category = "DRUGOE" /\ resp.text = "  "
    /\ resp.kind = "error" /\ resp.error = "empty_text"
    /\ employee_statements = <<Filed>>

\* The call passes every validation of statement_create and comes
\* from an employee.
PassesValidation(call) ==
    /\ CategoryKnown(call)
    /\ TextGiven(call)
    /\ WellFormed(call.desired_start) /\ WellFormed(call.desired_end)
    /\ (CategoryOf(call) \in {"otpusk", "uvolnenie"} => BothDates(call))
    /\ (CategoryOf(call) = "otpusk" => KindValid(call))
    /\ ~StartAfterEnd(call)
    /\ call.user_id \in DOMAIN employees

\* C16: a statement_create call of an employee that passes all validations
\* succeeds; a call that succeeds adds exactly one row, with a fresh id, owned by
\* the requester, with status 'новая' and deleted_at null, returns the id, the
\* status and created_at of that row, and leaves every other row as it was.
C16_CreateInsertsOneRow ==
    [][IsCreateStep =>
          /\ PassesValidation(resp') => resp'.kind = "ok"
          /\ resp'.kind = "ok" =>
                 LET n == Len(employee_statements)
                     r == employee_statements'[n + 1]
                 IN  /\ Len(employee_statements') = n + 1
                     /\ \A i \in 1..n : employee_statements'[i] = employee_statements[i]
                     /\ \A i \in 1..n : employee_statements[i].id # r.id
                     /\ r.employee_id = resp'.user_id
                     /\ r.status = "novaya"
                     /\ r.deleted_at = NULL
                     /\ resp'.statement_id = r.id
                     /\ resp'.status = r.status
                     /\ resp'.created_at = r.created_at]_vars

\* A second statement was added behind a cancelled one of another employee.
C16_Witness ==
    /\ resp.op = "statement_create" /\ resp.kind = "ok"
    /\ resp.user_id = 1
    /\ resp.statement_id = 2
    /\ Created.employee_id = 1 /\ Created.status = "novaya" /\ Created.deleted_at = NULL
    /\ employee_statements[1].deleted_at # NULL

\* C17: a validation failure of statement_create is an error result and never an
\* exception: a desired_start or desired_end that is no ISO date gives an error
\* result and no row, and the only exception a call may end in is a failure of
\* the datastore.
C17_NoExceptionOnBadDate ==
    [][IsCreateStep =>
          /\ (Malformed(resp'.desired_start) \/ Malformed(resp'.desired_end)) =>
                 /\ resp'.kind = "error"
                 /\ NoRowInserted
          /\ resp'.kind = "exception" => resp'.error = "ForeignKeyViolation"]_vars

-----------------------------------------------------------------------------
(* Claim about what writes employee_statements, checked under SpecTools *)

\* The call that the step made, if it made one: every call writes resp and
\* leaves the clock alone.
IsCallStep == now' = now /\ resp'.op # "none"

ReadOnlyCall(r) == r.op \in {"has_access", "statement_list", "statement_active"}
RefusedCall(r) == r.op \in {"statement_create", "statement_cancel"} /\ r.kind # "ok"

\* employee_statements' is employee_statements with one row added at the end.
OneRowAdded ==
    /\ Len(employee_statements') = Len(employee_statements) + 1
    /\ \A i \in DOMAIN employee_statements : employee_statements'[i] = employee_statements[i]

\* employee_statements' is employee_statements with deleted_at and status of
\* the statement id set and nothing else touched.
OneRowCancelled(id) ==
    /\ DOMAIN employee_statements' = DOMAIN employee_statements
    /\ id \in DOMAIN employee_statements
    /\ \A i \in DOMAIN employee_statements :
           IF i = id
           THEN employee_statements'[i] =
                    [employee_statements[i] EXCEPT
                        !.deleted_at = employee_statements'[i].deleted_at,
                        !.status = employee_statements'[i].status]
           ELSE employee_statements'[i] = employee_statements[i]

\* C20: employee_statements changes only in a statement_create that succeeds,
\* which adds one row, and in a statement_cancel that succeeds, which sets
\* deleted_at and status of one row; has_access, statement_list,
\* statement_active, a rejected statement_create and a statement_cancel that
\* returns not-found, already-cancelled or permission-denied leave every row
\* as it was.
C20_OnlyCreateAndCancelWrite ==
    [][/\ employee_statements' # employee_statements =>
              /\ IsCallStep
              /\ \/ /\ resp'.op = "statement_create" /\ resp'.kind = "ok"
                    /\ OneRowAdded
                 \/ /\ resp'.op = "statement_cancel" /\ resp'.kind = "ok"
                    /\ OneRowCancelled(resp'.statement_id)
       /\ (IsCallStep /\ (ReadOnlyCall(resp') \/ RefusedCall(resp'))) =>
              employee_statements' = employee_statements]_vars

\* A cancel was refused for want of permission while one statement is active
\* and another cancelled.
C20_Witness ==
    /\ resp.op = "statement_cancel"
    /\ resp.kind = "error" /\ resp.error = "forbidden"
    /\ IsActive(resp.statement_id)
    /\ \E id \in DOMAIN employee_statements : IsDeleted(id)

-----------------------------------------------------------------------------
(* Claims about the leave balance, checked under SpecAccrual. resp holds the
   call: the hire date of the employee, used_days, the reference date (today
   for compute_accrued_leave_days, as_of for the other) and the result. *)

IsBalanceCall ==
    resp.op \in {"compute_accrued_leave_days", "compute_accrued_leave_days_as_of"}

\* The months the specification counts from hire to ref: one less when the day
\* of ref is smaller than the day of hire.
FullMonths(hire, ref) ==
    (ref.year - hire.year) * 12 + (ref.month - hire.month)
        - (IF ref.day < hire.day THEN 1 ELSE 0)

\* max(0, months * 2.33 - usedDays) rounded to one decimal
SpecifiedBalance(hire, used, ref) ==
    round_1(Max(0, FullMonths(hire, ref) * 233 - 100 * used))

\* C21: with a hire date, compute_accrued_leave_days (reference date today) and
\* compute_accrued_leave_days_as_of both return max(0, months * 2.33 - used)
\* rounded to one decimal, months counted with one less when the reference day
\* of month is smaller than the hire day of month.
C21_DayOfMonthRule ==
    (IsBalanceCall /\ IsDate(resp.hired_at)) =>
        resp.result = SpecifiedBalance(resp.hired_at, resp.used_days, resp.ref)

\* C22: for a hire date H, a reference date D >= H and used days U the balance
\* is not negative, and it does not decrease when D moves to a later date: for
\* compute_accrued_leave_days_as_of in as_of, for compute_accrued_leave_days
\* when the day passes.
C22_NonNegativeMonotone ==
    [][/\ ( /\ resp'.op = "compute_accrued_leave_days_as_of"
            /\ IsDate(resp'.hired_at)
            /\ DateLE(resp'.hired_at, resp'.ref) )
          => /\ resp'.result >= 0
             /\ \A later \in AccrualDates :
                    DateLE(resp'.ref, later) =>
                        resp'.result <= compute_accrued_leave_days_as_of(
                                            employees[1], resp'.used_days, later)
       /\ ( /\ resp'.op = "compute_accrued_leave_days"
            /\ IsDate(resp'.hired_at)
            /\ DateLE(resp'.hired_at, resp'.ref) )
          => resp'.result >= 0
       /\ ( /\ IsDate(employees[1].hired_at)
            /\ DateLE(employees[1].hired_at, today)
            /\ DateLT(today, today') )
          => \A used \in UsedDays :
                 compute_accrued_leave_days(employees[1], used)
                     <= (compute_accrued_leave_days(employees[1], used))']_vars

\* A balance as of the day of hire, which is zero and grows later.
C22_Witness ==
    /\ resp.op = "compute_accrued_leave_days_as_of"
    /\ resp.hired_at = Date(2023, 1, 31) /\ resp.ref = Date(2023, 2, 28)
    /\ resp.used_days = 0
    /\ resp.result = 0
    /\ compute_accrued_leave_days_as_of(employees[1], 0, Date(2023, 6, 10)) > 0

\* C23: for a hire date H, a reference date D and whole used days U the balance
\* equals the balance with no used days minus U, not below zero.
C23_LinearModuloFloor ==
    (IsBalanceCall /\ IsDate(resp.hired_at)) =>
        resp.result =
            Max(0, (IF resp.op = "compute_accrued_leave_days"
                    THEN compute_accrued_leave_days(employees[1], 0)
                    ELSE compute_accrued_leave_days_as_of(employees[1], 0, resp.ref))
                   - 100 * resp.used_days)

\* Three used days come off a balance that was rounded up from 11.65.
C23_Witness ==
    /\ resp.op = "compute_accrued_leave_days_as_of"
    /\ IsDate(resp.hired_at)
    /\ resp.used_days = 3
    /\ resp.result = 870
    /\ compute_accrued_leave_days_as_of(employees[1], 0, resp.ref) = 1170

\* C24: without hire date the balance is max(0, 28 - used) for every reference
\* date, in compute_accrued_leave_days and compute_accrued_leave_days_as_of.
C24_FlatPoolWithoutHireDate ==
    (IsBalanceCall /\ ~IsDate(resp.hired_at)) =>
        resp.result = Max(0, 2800 - 100 * resp.used_days)

-----------------------------------------------------------------------------
(* Claims about leave_balance_forecast, checked under SpecForecast. The tables
   and today are those of the call, which changes none of them. *)

IsForecast == resp.op = "leave_balance_forecast" /\ resp.kind = "ok"

\* The balance of today as the forecast takes it: accrued up to today, less
\* every approved leave day of the employee.
TodaysBalance ==
    compute_accrued_leave_days(employees[resp.user_id], used_leave_days(resp.user_id))

\* Months from today to the target date, by the day-of-month rule; none when
\* the target date is not after today.
ExtraMonths ==
    IF DateLT(today, resp.target_date) THEN FullMonths(today, resp.target_date) ELSE 0

\* The approved leaves of the employee that lie inside [today, target date].
ApprovedInside ==
    {r \in leaves : /\ r.employee_id = resp.user_id
                    /\ r.status = "approved"
                    /\ Ordinal(r.start_date) >= Ordinal(today)
                    /\ Ordinal(r.end_date) <= Ordinal(resp.target_date)}

\* Inclusive day count of the planned range when both ends are given, otherwise
\* planned_days, otherwise nothing; never negative.
PlannedAsClaimed ==
    IF IsDate(resp.planned_start) /\ IsDate(resp.planned_end)
    THEN Max(0, Ordinal(resp.planned_end) - Ordinal(resp.planned_start) + 1)
    ELSE Max(0, resp.planned_days)

\* C25: leave_balance_forecast returns balance_with_planned = today's balance
\* + months_between(today, target) * 2.33 - the inclusive days of the approved
\* leaves inside [today, target] - planned, where planned is the inclusive day
\* count of the planned range when both ends are given, otherwise planned_days,
\* otherwise 0, never negative, and the months are 0 when the target date is
\* not after today.
C25_ForecastComposition ==
    IsForecast =>
        /\ resp.planned = PlannedAsClaimed
        /\ resp.balance_with_planned =
               TodaysBalance + ExtraMonths * 233
                   - 100 * SumDays(ApprovedInside) - 100 * resp.planned

\* Two months ahead, one approved leave of five days inside the period and a
\* planned range of five days.
C25_Witness ==
    /\ IsForecast
    /\ today = Date(2024, 1, 20) /\ resp.target_date = Date(2024, 3, 20)
    /\ resp.planned_start = Date(2024, 2, 20) /\ resp.planned_end = Date(2024, 2, 24)
    /\ resp.accrued_future_days = 466
    /\ resp.approved_future_days = 5
    /\ resp.planned = 5
    /\ resp.balance_with_planned = resp.current_balance_today + 466 - 500 - 500

\* The forecast for the same call when the employee has no leave at all.
ForecastWithoutLeaves ==
    compute_accrued_leave_days(employees[resp.user_id], 0)
        + ExtraMonths * 233 - 100 * resp.planned

\* C29: every approved leave day reduces the forecast at most once: the
\* forecast is lower than the forecast without leaves by no more than the
\* approved leave days of the employee.
C29_LeaveSubtractedOnce ==
    IsForecast =>
        ForecastWithoutLeaves - resp.balance_with_planned
            <= 100 * used_leave_days(resp.user_id)

-----------------------------------------------------------------------------
(* Claims about next_birthday, checked under SpecBirthday and SpecBirthdayFair *)

IsBirthdayCall == resp.op = "next_birthday"
BirthdayReturned == IsBirthdayCall /\ resp.at = "done"

BornFeb29 == resp.birth_date.month = 2 /\ resp.birth_date.day = 29

\* C26: next_birthday(birth, ref) returns a date d with ref <= d <= ref + 366
\* days, of the birth month and the birth day, except that a birth date of
\* February 29 gives February 28 in a year that is not a leap year.
C26_NextBirthdayRange ==
    BirthdayReturned =>
        LET d == resp.result
        IN  /\ IsValidDate(d)
            /\ Ordinal(resp.today) <= Ordinal(d)
            /\ Ordinal(d) <= Ordinal(resp.today) + 366
            /\ d.month = resp.birth_date.month
            /\ d.day = IF BornFeb29 /\ ~is_leap(d.year) THEN 28
                       ELSE resp.birth_date.day

\* Born on February 29, asked on March 1 of 2099: February 28 of 2100, which
\* is no leap year.
C26_Witness ==
    /\ BirthdayReturned
    /\ BornFeb29
    /\ resp.today = Date(2099, 3, 1)
    /\ resp.result = Date(2100, 2, 28)

\* C27: for a birth date of February 29 the candidate of a year that is not a
\* leap year is February 28 and that of a leap year February 29; a candidate
\* before the reference date makes the loop go on with the next year; birth
\* 2000-02-29 gives 2026-02-28 for the reference date 2025-03-01 and
\* 2028-02-29 for 2027-03-01.
C27_Feb29Candidates ==
    (IsBirthdayCall /\ BornFeb29) =>
        /\ resp.candidates > 0 =>
               /\ resp.candidate.month = 2
               /\ resp.candidate.day = IF is_leap(resp.candidate.year) THEN 29 ELSE 28
               /\ IF Ordinal(resp.candidate) < Ordinal(resp.today)
                  THEN resp.at = "loop" /\ resp.year = resp.candidate.year + 1
                  ELSE resp.at = "done" /\ resp.result = resp.candidate
        /\ (resp.at = "done" /\ resp.today = Date(2025, 3, 1)) =>
               resp.result = Date(2026, 2, 28)
        /\ (resp.at = "done" /\ resp.today = Date(2027, 3, 1)) =>
               resp.result = Date(2028, 2, 29)

C27_Witness ==
    /\ BirthdayReturned
    /\ resp.birth_date = Date(2000, 2, 29)
    /\ resp.today = Date(2027, 3, 1)
    /\ resp.result = Date(2028, 2, 29)

\* C28: the loop of next_birthday ends, for every birth date and reference
\* date, and it builds at most 2 candidates: that of the reference year and
\* that of the year after.
C28_LoopTerminates ==
    /\ [](IsBirthdayCall =>
             /\ resp.candidates <= 2
             /\ resp.candidates > 0 =>
                    resp.candidate.year \in {resp.today.year, resp.today.year + 1})
    /\ (IsBirthdayCall ~> BirthdayReturned)

\* A birthday that has passed this year: the second candidate is returned.
C28_Witness ==
    /\ BirthdayReturned
    /\ resp.candidates = 2
    /\ resp.birth_date = Date(1999, 1, 1)
    /\ resp.today = Date(2024, 6, 15)
    /\ resp.result = Date(2025, 1, 1)

-----------------------------------------------------------------------------
(* Claims about the intent log, checked under SpecIntent. The clock starts at
   1 and moves by one with every accepted intent, so the n-th accepted intent
   carries the timestamp n and now - 1 intents have been accepted. *)

\* The last k items of a sequence, in their order.
Newest(seq, k) == [i \in 1..k |-> seq[Len(seq) - k + i]]

Accepted == now - 1

IsBlank(intent) == intent \in {"", "  "}

\* C30: the intent log is a bounded FIFO. Its length never exceeds 20; it
\* holds the last min(n, 20) accepted intents in arrival order, an accepted
\* intent going to the end and, when the log is full, the oldest entry being
\* evicted; a blank intent is rejected and not appended; and
\* session_intent_history(limit) returns the last min(max(1, limit), length)
\* entries in that order, nothing when the log is empty.
C30_IntentLogBoundedFifo ==
    [][/\ Len(intent_log') <= 20
       /\ Len(intent_log') = Min(Accepted', 20)
       /\ \A i \in 1..Len(intent_log') :
              /\ intent_log'[i].timestamp = Accepted' - Len(intent_log') + i
              /\ intent_log'[i].intent = "proshu"
       /\ resp'.op = "session_log_intent" =>
              IF IsBlank(resp'.intent)
              THEN resp'.kind = "error" /\ intent_log' = intent_log
              ELSE /\ resp'.kind = "ok"
                   /\ LET all == intent_log \o <<[timestamp |-> now,
                                                  requester_user_id |-> resp'.user_id,
                                                  intent |-> "proshu"]>>
                      IN  intent_log' = Newest(all, Min(Len(all), 20))
       /\ resp'.op = "session_intent_history" =>
              /\ intent_log' = intent_log
              /\ resp'.intents =
                     Newest(intent_log, Min(Max(1, resp'.limit), Len(intent_log)))]_vars

\* The 22nd intent has been logged: the log holds the intents 3 to 22, and a
\* history of 5 returns the intents 18 to 22.
C30_Witness ==
    /\ Accepted = 22
    /\ Len(intent_log) = 20
    /\ intent_log[1].timestamp = 3
    /\ intent_log[20].timestamp = 22
    /\ resp.op = "session_intent_history"
    /\ resp.limit = 5
    /\ Len(resp.intents) = 5
    /\ resp.intents[1].timestamp = 18

-----------------------------------------------------------------------------
(* Claims about interleaved statement_cancel calls, checked under SpecConc *)

\* C8: of the statement_cancel calls on one statement at most one reports
\* success, and the deleted_at a successful call wrote is never overwritten.
C8_CancelAtomic ==
    /\ \A c, d \in Callers :
           (/\ c # d
            /\ frame[c].result = "ok" /\ frame[d].result = "ok")
               => frame[c].statement_id # frame[d].statement_id
    /\ \A c \in Callers :
           frame[c].result = "ok" =>
               employee_statements[frame[c].statement_id].deleted_at
                   = frame[c].cancelled_at

====
